---- MODULE Spec2Model ----
(***************************************************************************)
(* Q&A application: the relational store (questions, answers, topics,      *)
(* question_topics, votes) and the API route handlers that read and write  *)
(* it.  Each request is handled by one slot; a handler suspends at every   *)
(* awaited store statement, so a handler is a sequence of steps and the    *)
(* steps of different slots interleave.  A single SQL statement or a       *)
(* db.transaction block is one step.  Spec serves one request at a time    *)
(* from the seeded store and has the handlers that create and delete       *)
(* questions and answers, vote, and read one question; ConcSpec serves two *)
(* requests at once over a store that already holds questions, and has the *)
(* handlers that write the vote ledger; EditSpec has the create, edit and  *)
(* delete handlers; TopicSpec serves two concurrent topic creations;       *)
(* ListSpec runs the two listing handlers over populated stores.           *)
(***************************************************************************)
EXTENDS Integers, Sequences, FiniteSets, TLC

\* ------------------------------------------------------------------ bounds
MaxQuestions == 1
MaxAnswers == 1
MaxVotes == 2
MaxTopics == 2
MaxListed == 2
MaxLen == 4

\* ------------------------------------------------------- fixed vocabulary
Slots == {"s1", "s2"}
Slots1 == {"s1"}
Users == {"A", "B"}
Anon == "anonymous"
None == "null"
ItemTypes == {"question", "answer"}
VoteTypes == {"upvote", "downvote"}

\* itemType and voteType values a client may send in a body
ItemTypeInputs == ItemTypes \cup {"comment"}
VoteTypeInputs == VoteTypes \cup {"sideways"}

\* drizzle/seed.sql rows present before any request (two of the seeded rows)
SeedTopics ==
    { [id |-> "topic-1", name |-> "Technology", slug |-> "technology"],
      [id |-> "topic-4", name |-> "Arts & Culture", slug |-> "arts-culture"] }

\* topicIds arrays a client may send
TopicIdInputs ==
    { <<>>, <<"topic-1">>, <<"topic-1", "topic-4">>,
      <<"topic-1", "topic-1">>, <<"topic-9">> }

\* name and slug a client may send to POST /api/topics, before normalization
TopicBodyInputs ==
    { [name |-> "Science", slug |-> "science"],
      [name |-> " science ", slug |-> "Data Science"],
      [name |-> "cooking", slug |-> "Technology"],
      [name |-> "Technology", slug |-> "tech"] }

\* title and content strings a client may send; "bad" is under the minimum
\* length of every schema, Undefined stands for a key left out of the body
Undefined == "undefined"
TitleInputs == {"Title one", "bad"}
ContentInputs == {"Content one", "bad"}
NewTitleInputs == {Undefined, "Title two", "bad"}
NewContentInputs == {Undefined, "Content two", "bad"}

\* query strings of GET /api/questions and GET /api/questions/[id]/answers as
\* searchParams.get returns them: a string, or null for a parameter left out
PageInputs == { ToString(n) : n \in 1..(MaxListed + 1) }
LimitInputs == { ToString(n) : n \in 1..MaxListed }
SortInputs == {"recent", "most_voted"}
TopicInputs == {"", "technology", "science"}

\* one parameter left out or out of range, the others in range
FaultyQueryInputs ==
    { [page |-> f[1], limit |-> f[2], sort |-> f[3], topic |-> f[4]] :
        f \in { <<None, "1", "recent", "">>, <<"0", "1", "recent", "">>,
                <<"1", None, "recent", "">>, <<"1", "0", "recent", "">>,
                <<"1", "51", "recent", "">>, <<"1", "1", None, "">>,
                <<"1", "1", "recent", None>> } }

QuestionsQueryInputs ==
    [page : PageInputs, limit : LimitInputs, sort : SortInputs, topic : TopicInputs]
        \cup FaultyQueryInputs

AnswersQueryInputs ==
    { [page |-> r.page, limit |-> r.limit, sort |-> r.sort] :
        r \in { x \in QuestionsQueryInputs : x.topic = "" } }

\* ids produced by generateId(): fresh per table, never equal across tables
QuestionId(n) == <<"q", n>>
AnswerId(n) == <<"a", n>>
TopicId(n) == "topic-n" \o ToString(n)

\* created_at of a row: rows of a table are created in the order of their ids
CreatedAt(id) == id[2]
ItemIdInputs ==
    { QuestionId(n) : n \in 1..MaxQuestions } \cup { AnswerId(n) : n \in 1..MaxAnswers }

VARIABLES
    questions,       \* rows of table questions: [id, authorId, title]
    answers,         \* rows of table answers: [id, questionId, authorId, content]
    topics,          \* rows of table topics: [id, name, slug]
    questionTopics,  \* rows of table question_topics: [questionId, topicId]
    votes,           \* rows of table votes: [id, userId, itemId, itemType, voteType]
    idCount,         \* number of rows inserted so far, per table
    pc,              \* per slot: the await the handler is suspended at
    args,            \* per slot: caller identity and request parameters
    local,           \* per slot: the handler's local variables
    resp             \* the response the last step sent, with its request

vars == <<questions, answers, topics, questionTopics, votes, idCount, pc, args, local, resp>>
store == <<questions, answers, topics, questionTopics, votes, idCount>>

NoArgs == [op |-> None]
NoLocal == [existingVote |-> <<>>]
NoResp == [status |-> 0]   \* the last step sent no response

\* ------------------------------------------------------------ api-utils.ts
UniqueViolation == "duplicate key value violates unique constraint"
ForeignKeyViolation == "violates foreign key constraint"
UndefinedRead == "Cannot read properties of undefined"
AuthRequired == "Authentication required"
InvalidEnumValue == "Invalid enum value"
TooShort == "must be at least"
TooSmall == "Number must be greater than 0"
TooBig == "Number must be less than or equal to 50"
InvalidType == "Expected string, received null"
UndefinedColumn == "column answers.question_id does not exist"
ConnectionLost == "Connection terminated unexpectedly"

\* error.message.includes(sub) for the messages the store and runtime raise
MessageIncludes(msg, sub) ==
    CASE sub = "not found" -> FALSE
      [] sub = "unauthorized" -> FALSE
      [] OTHER -> msg = sub

createErrorResponse(error, status) ==
    [status |-> status, error |-> error, message |-> None]

createSuccessResponse(data, message) ==
    [status |-> 200, error |-> None, data |-> data, message |-> message]

\* Math.ceil(total / limit)
MathCeil(total, limit) == (total + limit - 1) \div limit

\* createSuccessResponse(data, message, pagination)
createPaginatedResponse(data, message, pagination) ==
    [status |-> 200, error |-> None, data |-> data, message |-> message,
     pagination |-> [page |-> pagination.page, limit |-> pagination.limit,
                     total |-> pagination.total,
                     totalPages |-> MathCeil(pagination.total, pagination.limit)]]

\* getPaginationParams(page, limit)
getPaginationParams(page, limit) == [limit |-> limit, offset |-> (page - 1) * limit]

handleApiError(msg) ==
    IF msg = AuthRequired THEN createErrorResponse("Authentication required", 401)
    ELSE IF MessageIncludes(msg, "not found") THEN createErrorResponse("Resource not found", 404)
    ELSE IF MessageIncludes(msg, "unauthorized") THEN createErrorResponse("Unauthorized", 403)
    ELSE createErrorResponse(msg, 500)

\* rows the WHERE clause of getItemVoteCounts selects
VotesOfItem(V, itemId, itemType) ==
    { v \in V : v.itemId = itemId /\ v.itemType = itemType }

\* COUNT(*) in place of the CASE expression
CountCase_All(rows, t) == Cardinality(rows)

\* COUNT(CASE WHEN vote_type = t THEN 1 END) over a set of rows
CountCase(rows, t) == Cardinality({ v \in rows : v.voteType = t })

getItemVoteCounts(V, itemId, itemType) ==
    LET rows == VotesOfItem(V, itemId, itemType)
        up == CountCase(rows, "upvote")
        down == CountCase(rows, "downvote")
    IN [upvotes |-> up, downvotes |-> down, total |-> up - down]

\* a selection that leaves the voter out of the WHERE clause
VotesOfUserItem_AnyUser(V, userId, itemId, itemType) ==
    { v \in V : v.itemId = itemId /\ v.itemType = itemType }

\* rows selected by userId, itemId, itemType
VotesOfUserItem(V, userId, itemId, itemType) ==
    { v \in V : v.userId = userId /\ v.itemId = itemId /\ v.itemType = itemType }

\* a result array cut by .limit(1): <<>> or <<row>>
Limit1(rows) == IF rows = {} THEN <<>> ELSE << CHOOSE v \in rows : TRUE >>

\* a formatting that drops the direction read
VoteTypeOrNull_Null(arr) == None

\* vote?.voteType || null on the first element of a result array
VoteTypeOrNull(arr) == IF arr = <<>> THEN None ELSE arr[1].voteType

\* a lookup that never finds the row
getUserVote_Absent(V, userId, itemId, itemType) == <<>>

getUserVote(V, userId, itemId, itemType) ==
    Limit1(VotesOfUserItem(V, userId, itemId, itemType))

\* a handler that never takes the delete branch
IsToggleOff_Never(existing, voteType) == FALSE

\* existingVote[0].voteType === body.voteType: the re-submitted direction
IsToggleOff(existing, voteType) == existing.voteType = voteType

\* ------------------------------------------------------------ validations
\* createVoteSchema.parse(body): "ok" or the message of the ZodError thrown
createVoteSchema(itemType, voteType) ==
    IF itemType \notin ItemTypes \/ voteType \notin VoteTypes THEN InvalidEnumValue ELSE "ok"

\* z.string().min(lo).max(hi) on a value that is present
StringBetween(val, lo, hi) == Len(val) >= lo /\ Len(val) <= hi

\* the strings of the topic bodies and of their normalized forms
TopicStrings ==
    { "Science", "science", " science ", "Data Science", "data-science", "cooking", "Technology", "technology", "tech" }

\* a string as its sequence of characters
Spell(val) ==
    CASE val = "Science" -> <<"S", "c", "i", "e", "n", "c", "e">>
      [] val = "science" -> <<"s", "c", "i", "e", "n", "c", "e">>
      [] val = " science " -> <<" ", "s", "c", "i", "e", "n", "c", "e", " ">>
      [] val = "Data Science" -> <<"D", "a", "t", "a", " ", "S", "c", "i", "e", "n", "c", "e">>
      [] val = "data-science" -> <<"d", "a", "t", "a", "-", "s", "c", "i", "e", "n", "c", "e">>
      [] val = "cooking" -> <<"c", "o", "o", "k", "i", "n", "g">>
      [] val = "Technology" -> <<"T", "e", "c", "h", "n", "o", "l", "o", "g", "y">>
      [] val = "technology" -> <<"t", "e", "c", "h", "n", "o", "l", "o", "g", "y">>
      [] val = "tech" -> <<"t", "e", "c", "h">>

\* the string of a sequence of characters
Unspell(chars) == CHOOSE val \in TopicStrings : Spell(val) = chars

\* the characters \s matches and trim strips, of those a body may hold
IsWhitespace(c) == c \in {" ", "\t"}

RECURSIVE TrimStart(_)
\* the characters after the leading whitespace
TrimStart(chars) ==
    IF chars = <<>> THEN <<>>
    ELSE IF IsWhitespace(Head(chars)) THEN TrimStart(Tail(chars)) ELSE chars

RECURSIVE TrimEnd(_)
\* the characters before the trailing whitespace
TrimEnd(chars) ==
    IF chars = <<>> THEN <<>>
    ELSE IF IsWhitespace(chars[Len(chars)]) THEN TrimEnd(SubSeq(chars, 1, Len(chars) - 1)) ELSE chars

\* String.prototype.trim left without effect
Trim_Kept(chars) == chars

\* String.prototype.trim
Trim(chars) == TrimEnd(TrimStart(chars))

\* the lower-case form of one character
LowerCaseOf(c) ==
    CASE c = "A" -> "a" [] c = "D" -> "d" [] c = "L" -> "l"
      [] c = "M" -> "m" [] c = "S" -> "s" [] c = "T" -> "t"
      [] OTHER -> c

\* String.prototype.toLowerCase
ToLowerCase(chars) == [i \in DOMAIN chars |-> LowerCaseOf(chars[i])]

RECURSIVE ReplaceWhitespace(_)
\* replace(/\s+/g, '-'): every maximal run of whitespace becomes one hyphen
ReplaceWhitespace(chars) ==
    IF chars = <<>> THEN <<>>
    ELSE IF IsWhitespace(Head(chars))
         THEN <<"-">> \o ReplaceWhitespace(TrimStart(Tail(chars)))
         ELSE <<Head(chars)>> \o ReplaceWhitespace(Tail(chars))

\* the transform of createTopicSchema.name
NameOf(chars) == ToLowerCase(Trim(chars))

\* the transform of createTopicSchema.slug
SlugOf(chars) == ReplaceWhitespace(ToLowerCase(Trim(chars)))

\* createTopicSchema.parse(body): the transformed name and slug
createTopicSchema(body) ==
    [name |-> Unspell(NameOf(Spell(body.name))),
     slug |-> Unspell(SlugOf(Spell(body.slug)))]

\* createQuestionSchema.parse(body), title and content sent together
createQuestionSchema(title) ==
    IF StringBetween(title, 5, 300) THEN "ok" ELSE TooShort

\* updateQuestionSchema.parse(body): every key is optional
updateQuestionSchema(body) ==
    IF body.title = Undefined \/ StringBetween(body.title, 5, 300) THEN "ok" ELSE TooShort

\* createAnswerSchema.parse(body)
createAnswerSchema(content) ==
    IF StringBetween(content, 10, 5000) THEN "ok" ELSE TooShort

\* updateAnswerSchema.parse(body): content is optional
updateAnswerSchema(body) ==
    IF body.content = Undefined \/ StringBetween(body.content, 10, 5000) THEN "ok" ELSE TooShort

\* Number(value) of z.coerce.number(): null becomes 0, a numeral its number
ToNumber(raw) ==
    CASE raw = None -> 0
      [] raw = "0" -> 0
      [] raw = "1" -> 1
      [] raw = "2" -> 2
      [] raw = "3" -> 3
      [] raw = "4" -> 4
      [] raw = "5" -> 5
      [] raw = "20" -> 20
      [] raw = "51" -> 51

\* .default(d): the default replaces undefined, and nothing else
ZodDefault(raw, d) == IF raw = Undefined THEN d ELSE raw

\* z.coerce.number().int().positive(): "ok" or the issue's message
CoercePositive(raw) == IF ToNumber(raw) <= 0 THEN TooSmall ELSE "ok"

\* the first issue of parsing page, limit and sort, or "ok"
QueryIssue(raw, sortDefault) ==
    IF CoercePositive(ZodDefault(raw.page, "1")) # "ok" THEN TooSmall
    ELSE IF CoercePositive(ZodDefault(raw.limit, "20")) # "ok" THEN TooSmall
    ELSE IF ToNumber(ZodDefault(raw.limit, "20")) > 50 THEN TooBig
    ELSE IF ZodDefault(raw.sort, sortDefault) \notin {"recent", "most_voted"}
    THEN InvalidEnumValue
    ELSE "ok"

\* answersQuerySchema.parse: [issue |-> "ok", page, limit, sort] or the issue
answersQuerySchema(raw) ==
    IF QueryIssue(raw, "most_voted") # "ok" THEN [issue |-> QueryIssue(raw, "most_voted")]
    ELSE [issue |-> "ok", page |-> ToNumber(ZodDefault(raw.page, "1")),
          limit |-> ToNumber(ZodDefault(raw.limit, "20")),
          sort |-> ZodDefault(raw.sort, "most_voted")]

\* questionsQuerySchema.parse: as above with topic: z.string().optional()
questionsQuerySchema(raw) ==
    IF QueryIssue(raw, "recent") # "ok" THEN [issue |-> QueryIssue(raw, "recent")]
    ELSE IF raw.topic = None THEN [issue |-> InvalidType]
    ELSE [issue |-> "ok", page |-> ToNumber(ZodDefault(raw.page, "1")),
          limit |-> ToNumber(ZodDefault(raw.limit, "20")),
          sort |-> ZodDefault(raw.sort, "recent"),
          topic |-> raw.topic]

\* ---------------------------------------------------------------- schema
\* a votes table without the constraint
votes_user_item_unique_Off(V, row) == TRUE

\* votes_user_item_unique: UNIQUE (user_id, item_id, item_type)
votes_user_item_unique(V, row) ==
    VotesOfUserItem(V, row.userId, row.itemId, row.itemType) = {}

\* topics.name UNIQUE and topics.slug UNIQUE
topics_unique(T, row) == \A t \in T : t.name # row.name /\ t.slug # row.slug

\* a delete statement that removes no row
DeleteVoteById_None(V, id) == V

\* delete from votes where id = id
DeleteVoteById(V, id) == { v \in V : v.id # id }

\* select id from questions / answers where id = itemId
ItemExists(itemId, itemType) ==
    IF itemType = "question"
    THEN \E q \in questions : q.id = itemId
    ELSE \E a \in answers : a.id = itemId

\* an ownership check that lets every caller through
IsOwner_Anyone(row, u) == TRUE

\* existing[0].authorId === authenticatedUser.id
IsOwner(row, u) == row.authorId = u

\* a store that keeps the statements of a failed transaction
TxResult_NoRollback(before, after, outcome) == after

\* db.transaction: the statements' effect on commit, the prior state on rollback
TxResult(before, after, outcome) == IF outcome = "ok" THEN after ELSE before

\* ON DELETE CASCADE of answers.question_id
CascadeAnswers(A, questionId) == { a \in A : a.questionId # questionId }

\* a delete of the question's question_topics rows that removes nothing
CascadeQuestionTopics_Kept(QT, questionId) == QT

\* ON DELETE CASCADE of question_topics.question_id, and the delete of the
\* question's rows in PUT /api/questions/[id]
CascadeQuestionTopics(QT, questionId) == { r \in QT : r.questionId # questionId }

\* ------------------------------------------------------------------ steps
\* the handler returns r: the slot is free for the next request
Finish(p, request, r) ==
    /\ pc' = [pc EXCEPT ![p] = "idle"]
    /\ args' = [args EXCEPT ![p] = NoArgs]
    /\ local' = [local EXCEPT ![p] = NoLocal]
    /\ resp' = [request |-> request, response |-> r, status |-> r.status]

\* the handler suspends at the await named label
Await(p, label, request, locals) ==
    /\ pc' = [pc EXCEPT ![p] = label]
    /\ args' = [args EXCEPT ![p] = request]
    /\ local' = [local EXCEPT ![p] = locals]
    /\ resp' = NoResp

\* POST /api/votes: requireAuth, validateRequestBody, item existence check
VotesPOST(p) ==
    /\ pc[p] = "idle"
    /\ \E u \in Users \cup {Anon}, itemId \in ItemIdInputs,
          itemType \in ItemTypeInputs, voteType \in VoteTypeInputs :
        LET request == [op |-> "castVote", user |-> u, itemId |-> itemId,
                        itemType |-> itemType, voteType |-> voteType]
        IN IF u = Anon THEN Finish(p, [op |-> request.op, user |-> u], handleApiError(AuthRequired))
           ELSE IF createVoteSchema(itemType, voteType) # "ok"
                THEN Finish(p, [op |-> request.op, user |-> u, itemType |-> itemType,
                                voteType |-> voteType],
                            handleApiError(createVoteSchema(itemType, voteType)))
           ELSE IF ~ItemExists(itemId, itemType)
                THEN Finish(p, request, createErrorResponse("item not found", 404))
           ELSE Await(p, "castVote.lookup", request, NoLocal)
    /\ UNCHANGED store

\* existingVote = select from votes where userId, itemId, itemType limit 1
VotesPOST_Lookup(p) ==
    /\ pc[p] = "castVote.lookup"
    /\ Await(p, "castVote.write", args[p],
             [existingVote |-> getUserVote(votes, args[p].user, args[p].itemId, args[p].itemType)])
    /\ UNCHANGED store

\* the delete / update / insert branch of POST /api/votes
VotesPOST_Write(p) ==
    /\ pc[p] = "castVote.write"
    /\ LET ex == local[p].existingVote
           a == args[p]
       IN IF Len(ex) > 0
          THEN IF IsToggleOff(ex[1], a.voteType)
               THEN \* delete from votes where id = existingVote[0].id; vote = null
                    /\ votes' = DeleteVoteById(votes, ex[1].id)
                    /\ Await(p, "castVote.counts", a, [existingVote |-> ex, vote |-> <<>>])
                    /\ UNCHANGED idCount
               ELSE \* [vote] = update votes set voteType where id = existingVote[0].id returning
                    LET hit == { v \in votes : v.id = ex[1].id }
                        upd == { [v EXCEPT !.voteType = a.voteType] : v \in hit }
                    IN /\ votes' = (votes \ hit) \cup upd
                       /\ Await(p, "castVote.counts", a, [existingVote |-> ex, vote |-> Limit1(upd)])
                       /\ UNCHANGED idCount
          ELSE \* [vote] = insert into votes values (generateId(), ...) returning
               /\ idCount.votes < MaxVotes
               /\ LET row == [id |-> idCount.votes + 1, userId |-> a.user, itemId |-> a.itemId,
                              itemType |-> a.itemType, voteType |-> a.voteType]
                  IN IF votes_user_item_unique(votes, row)
                     THEN /\ votes' = votes \cup {row}
                          /\ idCount' = [idCount EXCEPT !.votes = @ + 1]
                          /\ Await(p, "castVote.counts", a, [existingVote |-> ex, vote |-> <<row>>])
                     ELSE \* the store rejects the row; the throw lands in catch
                          /\ Finish(p, a, handleApiError(UniqueViolation))
                          /\ UNCHANGED <<votes, idCount>>
    /\ UNCHANGED <<questions, answers, topics, questionTopics>>

\* voteCounts = getItemVoteCounts(...); the success response
VotesPOST_Counts(p) ==
    /\ pc[p] = "castVote.counts"
    /\ LET vote == local[p].vote
           voteCounts == getItemVoteCounts(votes, args[p].itemId, args[p].itemType)
       IN Finish(p, args[p], createSuccessResponse(
              [vote |-> vote, voteCounts |-> voteCounts, userVoteType |-> VoteTypeOrNull(vote)],
              IF Len(vote) > 0 THEN "Vote recorded successfully" ELSE "Vote removed successfully"))
    /\ UNCHANGED store

\* DELETE /api/votes: requireAuth, parameter check, item existence check
VotesDELETE(p) ==
    /\ pc[p] = "idle"
    /\ \E u \in Users \cup {Anon}, itemId \in ItemIdInputs, itemType \in ItemTypes :
        LET request == [op |-> "removeVote", user |-> u, itemId |-> itemId, itemType |-> itemType]
        IN IF u = Anon THEN Finish(p, [op |-> request.op, user |-> u], handleApiError(AuthRequired))
           ELSE IF ~ItemExists(itemId, itemType)
                THEN Finish(p, request, createErrorResponse("item not found", 404))
           ELSE Await(p, "removeVote.lookup", request, NoLocal)
    /\ UNCHANGED store

\* existingVote = select from votes where userId, itemId, itemType limit 1
VotesDELETE_Lookup(p) ==
    /\ pc[p] = "removeVote.lookup"
    /\ LET ex == getUserVote(votes, args[p].user, args[p].itemId, args[p].itemType)
       IN IF Len(ex) = 0
          THEN Finish(p, args[p], createErrorResponse("No vote found for this item", 404))
          ELSE Await(p, "removeVote.delete", args[p], [existingVote |-> ex])
    /\ UNCHANGED store

\* delete from votes where id = existingVote[0].id
VotesDELETE_Delete(p) ==
    /\ pc[p] = "removeVote.delete"
    /\ votes' = DeleteVoteById(votes, local[p].existingVote[1].id)
    /\ Await(p, "removeVote.counts", args[p], local[p])
    /\ UNCHANGED <<questions, answers, topics, questionTopics, idCount>>

\* voteCounts = getItemVoteCounts(...); the success response
VotesDELETE_Counts(p) ==
    /\ pc[p] = "removeVote.counts"
    /\ Finish(p, args[p], createSuccessResponse(
           [voteCounts |-> getItemVoteCounts(votes, args[p].itemId, args[p].itemType),
            userVoteType |-> None],
           "Vote removed successfully"))
    /\ UNCHANGED store

\* array_agg(t.name) over the question's question_topics rows, nulls filtered
TopicNamesOf(questionId) ==
    { t.name : t \in { t \in topics : \E r \in questionTopics :
                          r.questionId = questionId /\ r.topicId = t.id } }

\* the question_topics rows a topicIds array maps to
TopicRelations(questionId, topicIds) ==
    { [questionId |-> questionId, topicId |-> topicIds[i]] : i \in 1..Len(topicIds) }

\* outcome of tx.insert(questionTopics).values(rows): "ok" or the store's error
InsertQuestionTopics(QT, questionId, topicIds) ==
    IF \E i \in 1..Len(topicIds) : \A t \in topics : t.id # topicIds[i]
    THEN ForeignKeyViolation
    ELSE IF \/ \E i, j \in 1..Len(topicIds) : i # j /\ topicIds[i] = topicIds[j]
            \/ TopicRelations(questionId, topicIds) \cap QT # {}
    THEN UniqueViolation
    ELSE "ok"

\* POST /api/questions: requireAuth, validateRequestBody, db.transaction
QuestionsPOST(p) ==
    /\ pc[p] = "idle"
    /\ \E u \in Users \cup {Anon}, title \in TitleInputs, topicIds \in TopicIdInputs, cut \in BOOLEAN :
        LET request == [op |-> "createQuestion", user |-> u, title |-> title, topicIds |-> topicIds]
        IN IF u = Anon
           THEN /\ Finish(p, [op |-> request.op, user |-> u], handleApiError(AuthRequired))
                /\ UNCHANGED store
           ELSE IF createQuestionSchema(title) # "ok"
           THEN /\ Finish(p, [op |-> request.op, user |-> u, title |-> title],
                          handleApiError(createQuestionSchema(title)))
                /\ UNCHANGED store
           ELSE /\ idCount.questions < MaxQuestions
                /\ LET questionId == QuestionId(idCount.questions + 1)
                       \* tx.insert(questions), then tx.insert(questionTopics) when topicIds has elements
                       inserted == IF cut THEN ConnectionLost
                                   ELSE IF Len(topicIds) > 0
                                   THEN InsertQuestionTopics(questionTopics, questionId, topicIds)
                                   ELSE "ok"
                       questions1 == questions \cup {[id |-> questionId, authorId |-> u, title |-> title]}
                       questionTopics1 == IF inserted = "ok"
                                          THEN questionTopics \cup TopicRelations(questionId, topicIds)
                                          ELSE questionTopics
                   IN /\ questions' = TxResult(questions, questions1, inserted)
                      /\ questionTopics' = TxResult(questionTopics, questionTopics1, inserted)
                      /\ UNCHANGED <<answers, topics, votes>>
                      /\ IF inserted = "ok"
                         THEN /\ idCount' = [idCount EXCEPT !.questions = @ + 1]
                              /\ Await(p, "createQuestion.fetch", request, [questionId |-> questionId])
                         ELSE \* the transaction rolls back and the throw lands in catch
                              /\ idCount' = idCount
                              /\ Finish(p, request, handleApiError(inserted))

\* completeQuestion = select ... where id = questionId; the success response
QuestionsPOST_Fetch(p) ==
    /\ pc[p] = "createQuestion.fetch"
    /\ LET questionId == local[p].questionId
           completeQuestion == { q \in questions : q.id = questionId }
       IN IF completeQuestion = {}
          THEN Finish(p, args[p], handleApiError(UndefinedRead))
          ELSE Finish(p, args[p], createSuccessResponse(
                   [id |-> questionId, title |-> (CHOOSE q \in completeQuestion : TRUE).title,
                    topics |-> TopicNamesOf(questionId),
                    voteCount |-> 0, upvotes |-> 0, downvotes |-> 0, answerCount |-> 0],
                   "Question created successfully"))
    /\ UNCHANGED store

\* POST /api/questions/[id]/answers: requireAuth, validateRequestBody, question check
AnswersPOST(p) ==
    /\ pc[p] = "idle"
    /\ \E u \in Users \cup {Anon}, n \in 1..MaxQuestions, content \in ContentInputs :
        LET request == [op |-> "createAnswer", user |-> u, questionId |-> QuestionId(n),
                        content |-> content]
        IN IF u = Anon THEN Finish(p, [op |-> request.op, user |-> u], handleApiError(AuthRequired))
           ELSE IF createAnswerSchema(content) # "ok"
                THEN Finish(p, [op |-> request.op, user |-> u, content |-> content],
                            handleApiError(createAnswerSchema(content)))
           ELSE IF ~ItemExists(QuestionId(n), "question")
                THEN Finish(p, request, createErrorResponse("Question not found", 404))
           ELSE Await(p, "createAnswer.insert", request, NoLocal)
    /\ UNCHANGED store

\* insert into answers values (generateId(), ...); answers_question_id_fkey applies
AnswersPOST_Insert(p) ==
    /\ pc[p] = "createAnswer.insert"
    /\ idCount.answers < MaxAnswers
    /\ LET answerId == AnswerId(idCount.answers + 1)
       IN IF ItemExists(args[p].questionId, "question")
          THEN /\ answers' = answers \cup {[id |-> answerId, questionId |-> args[p].questionId,
                                             authorId |-> args[p].user, content |-> args[p].content]}
               /\ idCount' = [idCount EXCEPT !.answers = @ + 1]
               /\ Await(p, "createAnswer.fetch", args[p], [answerId |-> answerId])
          ELSE /\ Finish(p, args[p], handleApiError(ForeignKeyViolation))
               /\ UNCHANGED <<answers, idCount>>
    /\ UNCHANGED <<questions, topics, questionTopics, votes>>

\* completeAnswer = select ... where id = answerId; the success response
AnswersPOST_Fetch(p) ==
    /\ pc[p] = "createAnswer.fetch"
    /\ LET completeAnswer == { a \in answers : a.id = local[p].answerId }
       IN IF completeAnswer = {}
          THEN Finish(p, args[p], handleApiError(UndefinedRead))
          ELSE Finish(p, args[p], createSuccessResponse(
                   [id |-> local[p].answerId,
                    content |-> (CHOOSE a \in completeAnswer : TRUE).content,
                    voteCount |-> 0, upvotes |-> 0,
                    downvotes |-> 0, userVote |-> None],
                   "Answer created successfully"))
    /\ UNCHANGED store

\* DELETE /api/questions/[id]: requireAuth, existence check, ownership check
QuestionDELETE(p) ==
    /\ pc[p] = "idle"
    /\ \E u \in Users \cup {Anon}, n \in 1..MaxQuestions :
        LET request == [op |-> "deleteQuestion", user |-> u, questionId |-> QuestionId(n)]
            existingQuestion == { q \in questions : q.id = QuestionId(n) }
        IN IF u = Anon THEN Finish(p, [op |-> request.op, user |-> u], handleApiError(AuthRequired))
           ELSE IF existingQuestion = {}
                THEN Finish(p, request, createErrorResponse("Question not found", 404))
           ELSE IF \E q \in existingQuestion : ~IsOwner(q, u)
                THEN Finish(p, request, createErrorResponse("You can only delete your own questions", 403))
           ELSE Await(p, "deleteQuestion.delete", request, NoLocal)
    /\ UNCHANGED store

\* delete from questions where id = questionId, with the store's cascades
QuestionDELETE_Delete(p) ==
    /\ pc[p] = "deleteQuestion.delete"
    /\ questions' = { q \in questions : q.id # args[p].questionId }
    /\ answers' = CascadeAnswers(answers, args[p].questionId)
    /\ questionTopics' = CascadeQuestionTopics(questionTopics, args[p].questionId)
    /\ Finish(p, args[p], createSuccessResponse(None, "Question deleted successfully"))
    /\ UNCHANGED <<topics, votes, idCount>>

\* DELETE /api/answers/[id]: requireAuth, existence check, ownership check
AnswerDELETE(p) ==
    /\ pc[p] = "idle"
    /\ \E u \in Users \cup {Anon}, n \in 1..MaxAnswers :
        LET request == [op |-> "deleteAnswer", user |-> u, answerId |-> AnswerId(n)]
            existingAnswer == { a \in answers : a.id = AnswerId(n) }
        IN IF u = Anon THEN Finish(p, [op |-> request.op, user |-> u], handleApiError(AuthRequired))
           ELSE IF existingAnswer = {}
                THEN Finish(p, request, createErrorResponse("Answer not found", 404))
           ELSE IF \E a \in existingAnswer : ~IsOwner(a, u)
                THEN Finish(p, request, createErrorResponse("You can only delete your own answers", 403))
           ELSE Await(p, "deleteAnswer.delete", request, NoLocal)
    /\ UNCHANGED store

\* delete from answers where id = answerId
AnswerDELETE_Delete(p) ==
    /\ pc[p] = "deleteAnswer.delete"
    /\ answers' = { a \in answers : a.id # args[p].answerId }
    /\ Finish(p, args[p], createSuccessResponse(None, "Answer deleted successfully"))
    /\ UNCHANGED <<questions, topics, questionTopics, votes, idCount>>

\* PUT /api/questions/[id]: requireAuth, validateRequestBody, existence check,
\* ownership check
QuestionPUT(p) ==
    /\ pc[p] = "idle"
    /\ \E u \in Users \cup {Anon}, n \in 1..MaxQuestions, title \in NewTitleInputs,
          setTopics \in BOOLEAN, topicIds \in TopicIdInputs :
        LET body == [title |-> title, setTopics |-> setTopics,
                     topicIds |-> IF setTopics THEN topicIds ELSE <<>>]
            request == [op |-> "updateQuestion", user |-> u, questionId |-> QuestionId(n),
                        body |-> body]
            existingQuestion == { q \in questions : q.id = QuestionId(n) }
        IN IF u = Anon THEN Finish(p, [op |-> request.op, user |-> u], handleApiError(AuthRequired))
           ELSE IF updateQuestionSchema(body) # "ok"
                THEN Finish(p, request, handleApiError(updateQuestionSchema(body)))
           ELSE IF existingQuestion = {}
                THEN Finish(p, request, createErrorResponse("Question not found", 404))
           ELSE IF \E q \in existingQuestion : ~IsOwner(q, u)
                THEN Finish(p, request, createErrorResponse("You can only edit your own questions", 403))
           ELSE Await(p, "updateQuestion.tx", request, NoLocal)
    /\ UNCHANGED store

\* the db.transaction of PUT /api/questions/[id]: update questions; when
\* topicIds is given, delete the question's question_topics rows and insert
\* the new ones
QuestionPUT_Tx(p) ==
    /\ pc[p] = "updateQuestion.tx"
    /\ \E cut \in BOOLEAN :
        LET a == args[p]
            hit == { q \in questions : q.id = a.questionId }
            questions1 == (questions \ hit) \cup
                { IF a.body.title # Undefined THEN [q EXCEPT !.title = a.body.title] ELSE q : q \in hit }
            deleted == IF a.body.setTopics
                       THEN CascadeQuestionTopics(questionTopics, a.questionId)
                       ELSE questionTopics
            inserted == IF cut THEN ConnectionLost
                        ELSE IF a.body.setTopics /\ Len(a.body.topicIds) > 0
                        THEN IF hit = {} THEN ForeignKeyViolation
                             ELSE InsertQuestionTopics(deleted, a.questionId, a.body.topicIds)
                        ELSE "ok"
            questionTopics1 == IF inserted = "ok"
                               THEN deleted \cup TopicRelations(a.questionId, a.body.topicIds)
                               ELSE deleted
        IN /\ questions' = TxResult(questions, questions1, inserted)
           /\ questionTopics' = TxResult(questionTopics, questionTopics1, inserted)
           /\ IF inserted = "ok"
              THEN Await(p, "updateQuestion.fetch", a, NoLocal)
              ELSE Finish(p, a, handleApiError(inserted))
    /\ UNCHANGED <<answers, topics, votes, idCount>>

\* updatedQuestion = select ... where id = questionId; the success response
QuestionPUT_Fetch(p) ==
    /\ pc[p] = "updateQuestion.fetch"
    /\ LET updatedQuestion == { q \in questions : q.id = args[p].questionId }
       IN IF updatedQuestion = {}
          THEN Finish(p, args[p], handleApiError(UndefinedRead))
          ELSE Finish(p, args[p], createSuccessResponse(
                   [id |-> args[p].questionId,
                    title |-> (CHOOSE q \in updatedQuestion : TRUE).title,
                    topics |-> TopicNamesOf(args[p].questionId)],
                   "Question updated successfully"))
    /\ UNCHANGED store

\* PUT /api/answers/[id]: requireAuth, validateRequestBody, existence check,
\* ownership check
AnswerPUT(p) ==
    /\ pc[p] = "idle"
    /\ \E u \in Users \cup {Anon}, n \in 1..MaxAnswers, content \in NewContentInputs :
        LET body == [content |-> content]
            request == [op |-> "updateAnswer", user |-> u, answerId |-> AnswerId(n), body |-> body]
            existingAnswer == { a \in answers : a.id = AnswerId(n) }
        IN IF u = Anon THEN Finish(p, [op |-> request.op, user |-> u], handleApiError(AuthRequired))
           ELSE IF updateAnswerSchema(body) # "ok"
                THEN Finish(p, request, handleApiError(updateAnswerSchema(body)))
           ELSE IF existingAnswer = {}
                THEN Finish(p, request, createErrorResponse("Answer not found", 404))
           ELSE IF \E a \in existingAnswer : ~IsOwner(a, u)
                THEN Finish(p, request, createErrorResponse("You can only edit your own answers", 403))
           ELSE Await(p, "updateAnswer.update", request, NoLocal)
    /\ UNCHANGED store

\* [updatedAnswer] = update answers set content where id = answerId returning
AnswerPUT_Update(p) ==
    /\ pc[p] = "updateAnswer.update"
    /\ LET a == args[p]
           hit == { x \in answers : x.id = a.answerId }
       IN answers' = (answers \ hit) \cup
            { IF a.body.content # Undefined THEN [x EXCEPT !.content = a.body.content] ELSE x : x \in hit }
    /\ Await(p, "updateAnswer.fetch", args[p], NoLocal)
    /\ UNCHANGED <<questions, topics, questionTopics, votes, idCount>>

\* completeAnswer = select ... where id = answerId; the success response
AnswerPUT_Fetch(p) ==
    /\ pc[p] = "updateAnswer.fetch"
    /\ LET completeAnswer == { a \in answers : a.id = args[p].answerId }
       IN IF completeAnswer = {}
          THEN Finish(p, args[p], handleApiError(UndefinedRead))
          ELSE Finish(p, args[p], createSuccessResponse(
                   [id |-> args[p].answerId,
                    content |-> (CHOOSE a \in completeAnswer : TRUE).content],
                   "Answer updated successfully"))
    /\ UNCHANGED store

\* POST /api/topics: validateRequestBody, select the topic with this name or slug
TopicsPOST(p) ==
    /\ pc[p] = "idle"
    /\ \E raw \in TopicBodyInputs :
        LET body == createTopicSchema(raw)
            request == [op |-> "createTopic", name |-> body.name, slug |-> body.slug]
            existingTopic == { t \in topics : t.name = body.name \/ t.slug = body.slug }
        IN IF existingTopic # {}
           THEN Finish(p, request, createErrorResponse("Topic with this name or slug already exists", 409))
           ELSE Await(p, "createTopic.insert", request, NoLocal)
    /\ UNCHANGED store

\* [newTopic] = insert into topics values (generateId(), name, slug) returning
TopicsPOST_Insert(p) ==
    /\ pc[p] = "createTopic.insert"
    /\ idCount.topics < MaxTopics
    /\ LET row == [id |-> TopicId(idCount.topics + 1), name |-> args[p].name, slug |-> args[p].slug]
       IN IF topics_unique(topics, row)
          THEN /\ topics' = topics \cup {row}
               /\ idCount' = [idCount EXCEPT !.topics = @ + 1]
               /\ Finish(p, args[p], createSuccessResponse(row, "Topic created successfully"))
          ELSE \* the store rejects the row; the throw lands in catch
               /\ Finish(p, args[p], handleApiError(UniqueViolation))
               /\ UNCHANGED <<topics, idCount>>
    /\ UNCHANGED <<questions, answers, questionTopics, votes>>

\* the rows of the user table: one for every account that can sign in
user == { [id |-> u, name |-> u] : u \in Users }

\* a join that drops the left row when nothing matches
LeftJoin_Inner(rows) == { <<r>> : r \in rows }

\* the right side of a LEFT JOIN: the matching rows, or one all-NULL row
LeftJoin(rows) == IF rows = {} THEN { <<>> } ELSE { <<r>> : r \in rows }

\* GET /api/questions base query, the joined rows of one question before GROUP BY:
\* questions LEFT JOIN answers LEFT JOIN votes v LEFT JOIN question_topics LEFT JOIN topics t
QuestionsJoin(A, V, QT, T, questionId) ==
    { [a |-> a, v |-> v, t |-> t] :
        a \in LeftJoin({ x \in A : x.questionId = questionId }),
        v \in LeftJoin(VotesOfItem(V, questionId, "question")),
        t \in LeftJoin({ x \in T : \E r \in QT : r.questionId = questionId /\ r.topicId = x.id }) }

\* one formatted row of GET /api/questions: the aggregates over the joined rows
QuestionsRow(A, V, QT, T, questionId) ==
    LET rows == QuestionsJoin(A, V, QT, T, questionId)
        up == Cardinality({ r \in rows : r.v # <<>> /\ r.v[1].voteType = "upvote" })
        down == Cardinality({ r \in rows : r.v # <<>> /\ r.v[1].voteType = "downvote" })
    IN [id |-> questionId,
        answerCount |-> Cardinality({ r \in rows : r.a # <<>> }),
        upvotes |-> up, downvotes |-> down, voteCount |-> up - down,
        topics |-> { r.t[1].name : r \in { x \in rows : x.t # <<>> } }]

\* one formatted answer of GET /api/questions/[id]: answers LEFT JOIN votes av
AnswerRow(V, answerId, u) ==
    LET rows == LeftJoin(VotesOfItem(V, answerId, "answer"))
        up == Cardinality({ r \in rows : r # <<>> /\ r[1].voteType = "upvote" })
        down == Cardinality({ r \in rows : r # <<>> /\ r[1].voteType = "downvote" })
    IN [id |-> answerId, upvotes |-> up, downvotes |-> down, voteCount |-> up - down,
        userVote |-> IF u = Anon THEN None
                     ELSE VoteTypeOrNull(Limit1(VotesOfUserItem(V, u, answerId, "answer")))]

\* ORDER BY key DESC on rows that carry their sort key <<score, createdAt>>
KeyBefore(k1, k2) == k1[1] > k2[1] \/ (k1[1] = k2[1] /\ k1[2] > k2[2])

RECURSIVE OrderByDesc(_)
OrderByDesc(rows) ==
    IF rows = {} THEN <<>>
    ELSE LET first == CHOOSE r \in rows : \A o \in rows : ~KeyBefore(o.key, r.key)
         IN <<first>> \o OrderByDesc(rows \ {first})

\* .limit(limit).offset(offset) on an ordered result
LimitOffset(ordered, limit, offset) ==
    SubSeq(ordered, offset + 1, IF offset + limit < Len(ordered) THEN offset + limit ELSE Len(ordered))

\* the row without its sort key
DropKey(r) == [f \in DOMAIN r \ {"key"} |-> r[f]]

\* q.author || { id: q.authorId, name: "Unknown User", ... } over
\* questions LEFT JOIN user
FormatAuthor(authorId) ==
    LET author == LeftJoin({ x \in user : x.id = authorId })
    IN { IF r = <<>> THEN [id |-> authorId, name |-> "Unknown User"]
                     ELSE [id |-> r[1].id, name |-> r[1].name] : r \in author }

\* questionsData of GET /api/questions: grouped rows, HAVING, ORDER BY, page
QuestionsData(Q, A, V, QT, T, query) ==
    LET joined == { q \in Q : QuestionsJoin(A, V, QT, T, q.id) # {} /\ FormatAuthor(q.authorId) # {} }
        grouped == { QuestionsRow(A, V, QT, T, q.id) : q \in joined }
        having == IF query.topic # ""
                  THEN { r \in grouped : query.topic \in r.topics }
                  ELSE grouped
        keyed == { [id |-> r.id, answerCount |-> r.answerCount, upvotes |-> r.upvotes,
                    downvotes |-> r.downvotes, voteCount |-> r.voteCount, topics |-> r.topics,
                    author |-> CHOOSE a \in FormatAuthor((CHOOSE q \in Q : q.id = r.id).authorId) : TRUE,
                    key |-> IF query.sort = "most_voted"
                            THEN <<r.upvotes - r.downvotes, CreatedAt(r.id)>>
                            ELSE <<0, CreatedAt(r.id)>>] : r \in having }
        page == LimitOffset(OrderByDesc(keyed), getPaginationParams(query.page, query.limit).limit,
                            getPaginationParams(query.page, query.limit).offset)
    IN [i \in DOMAIN page |-> DropKey(page[i])]

\* totalCountQuery of GET /api/questions
QuestionsTotal(Q, QT, T, query) ==
    IF query.topic # ""
    THEN Cardinality({ r \in QT : /\ \E q \in Q : q.id = r.questionId
                                   /\ \E t \in T : t.id = r.topicId /\ t.slug = query.topic })
    ELSE Cardinality(Q)

\* GET /api/questions: parse the query, the page of questions, the total
QuestionsGET(p) ==
    /\ pc[p] = "idle"
    /\ \E raw \in QuestionsQueryInputs :
        LET request == [op |-> "listQuestions", raw |-> raw]
            query == questionsQuerySchema(raw)
        IN IF query.issue # "ok" THEN Finish(p, request, handleApiError(query.issue))
           ELSE Finish(p, request, createPaginatedResponse(
                    QuestionsData(questions, answers, votes, questionTopics, topics, query),
                    "Questions retrieved successfully",
                    [page |-> query.page, limit |-> query.limit,
                     total |-> QuestionsTotal(questions, questionTopics, topics, query)]))
    /\ UNCHANGED store

\* answersData of GET /api/questions/[id]/answers with each row's userVote
AnswersData(A, V, questionId, query, u) ==
    LET keyed == { [id |-> a.id, row |-> AnswerRow(V, a.id, u),
                    key |-> IF query.sort = "most_voted"
                            THEN <<AnswerRow(V, a.id, u).voteCount, CreatedAt(a.id)>>
                            ELSE <<0, CreatedAt(a.id)>>] :
                     a \in { x \in A : x.questionId = questionId } }
        page == LimitOffset(OrderByDesc(keyed), getPaginationParams(query.page, query.limit).limit,
                            getPaginationParams(query.page, query.limit).offset)
    IN [i \in DOMAIN page |-> page[i].row]

\* GET /api/questions/[id]/answers: parse the query, question check, the page
\* of answers, the total, the caller's votes
AnswersGET(p) ==
    /\ pc[p] = "idle"
    /\ \E u \in {"A", Anon}, n \in {1, MaxListed + 1}, raw \in AnswersQueryInputs :
        LET request == [op |-> "listAnswers", user |-> u, questionId |-> QuestionId(n), raw |-> raw]
            query == answersQuerySchema(raw)
        IN IF query.issue # "ok" THEN Finish(p, request, handleApiError(query.issue))
           ELSE IF ~ItemExists(QuestionId(n), "question")
                THEN Finish(p, request, createErrorResponse("Question not found", 404))
           ELSE Finish(p, request, createPaginatedResponse(
                    AnswersData(answers, votes, QuestionId(n), query, u),
                    "Answers retrieved successfully",
                    [page |-> query.page, limit |-> query.limit,
                     total |-> Cardinality({ a \in answers : a.questionId = QuestionId(n) })]))
    /\ UNCHANGED store

\* the columns of the questions table
QuestionsColumns == {"id", "title", "content", "author_id", "created_at", "updated_at"}

\* slugs and query strings a client may send to GET /api/topics/[slug]
TopicSlugInputs == {"technology", "cooking"}
TopicQueryInputs ==
    { [page |-> f[1], limit |-> f[2], sort |-> f[3], topic |-> Undefined] :
        f \in { <<"1", "1", "recent">>, <<"1", "1", "most_voted">>, <<None, "1", "recent">> } }

\* the error of the questions query of GET /api/topics/[slug]: it joins
\* questions.as("answers") on answers.question_id, which is no column of the
\* aliased table, and the store rejects the statement
TopicQuestionsQuery ==
    CHOOSE msg \in {UndefinedColumn} : "question_id" \notin QuestionsColumns

\* GET /api/topics/[slug]: parse the query, the topic, its page of questions
TopicGET(p) ==
    /\ pc[p] = "idle"
    /\ \E topicSlug \in TopicSlugInputs, raw \in TopicQueryInputs :
        LET request == [op |-> "getTopic", slug |-> topicSlug, raw |-> raw]
            query == questionsQuerySchema(raw)
            topicData == { t \in topics : t.slug = topicSlug }
        IN IF query.issue # "ok" THEN Finish(p, request, handleApiError(query.issue))
           ELSE IF topicData = {}
                THEN Finish(p, request, createErrorResponse("Topic not found", 404))
           ELSE \* the questions query throws and the throw lands in catch
                Finish(p, request, handleApiError(TopicQuestionsQuery))
    /\ UNCHANGED store

\* formattedQuestion of GET /api/questions/[id] for caller u
FormattedQuestion(A, V, QT, T, questionId, u) ==
    LET voteCounts == getItemVoteCounts(V, questionId, "question")
        userVote == IF u = Anon THEN <<>> ELSE getUserVote(V, u, questionId, "question")
    IN [id |-> questionId,
        topics |-> { t.name : t \in { x \in T : \E r \in QT :
                                        r.questionId = questionId /\ r.topicId = x.id } },
        voteCount |-> voteCounts.total,
        upvotes |-> voteCounts.upvotes,
        downvotes |-> voteCounts.downvotes,
        userVote |-> VoteTypeOrNull(userVote),
        answers |-> { AnswerRow(V, a.id, u) : a \in { x \in A : x.questionId = questionId } }]

\* GET /api/questions/[id]: question, tallies, the caller's vote, the answers
QuestionGET(p) ==
    /\ pc[p] = "idle"
    /\ \E u \in Users \cup {Anon}, n \in 1..MaxQuestions :
        LET request == [op |-> "getQuestion", user |-> u, questionId |-> QuestionId(n)]
        IN IF ~ItemExists(QuestionId(n), "question")
           THEN Finish(p, request, createErrorResponse("Question not found", 404))
           ELSE Finish(p, request, createSuccessResponse(
                    FormattedQuestion(answers, votes, questionTopics, topics, QuestionId(n), u),
                    "Question retrieved successfully"))
    /\ UNCHANGED store

Init ==
    /\ questions = {}
    /\ answers = {}
    /\ topics = SeedTopics
    /\ questionTopics = {}
    /\ votes = {}
    /\ idCount = [questions |-> 0, answers |-> 0, votes |-> 0, topics |-> 0]
    /\ pc = [p \in Slots1 |-> "idle"]
    /\ args = [p \in Slots1 |-> NoArgs]
    /\ local = [p \in Slots1 |-> NoLocal]
    /\ resp = NoResp

\* a store holding MaxQuestions questions by A and no vote, with two request slots
ConcInit ==
    /\ questions = { [id |-> QuestionId(n), authorId |-> "A", title |-> "Title one"] :
                        n \in 1..MaxQuestions }
    /\ answers = {}
    /\ topics = SeedTopics
    /\ questionTopics = {}
    /\ votes = {}
    /\ idCount = [questions |-> MaxQuestions, answers |-> 0, votes |-> 0, topics |-> 0]
    /\ pc = [p \in Slots |-> "idle"]
    /\ args = [p \in Slots |-> NoArgs]
    /\ local = [p \in Slots |-> NoLocal]
    /\ resp = NoResp

Next ==
    \E p \in DOMAIN pc :
        \/ VotesPOST(p)
        \/ VotesPOST_Lookup(p)
        \/ VotesPOST_Write(p)
        \/ VotesPOST_Counts(p)
        \/ VotesDELETE(p)
        \/ VotesDELETE_Lookup(p)
        \/ VotesDELETE_Delete(p)
        \/ VotesDELETE_Counts(p)
        \/ QuestionsPOST(p)
        \/ QuestionsPOST_Fetch(p)
        \/ AnswersPOST(p)
        \/ AnswersPOST_Insert(p)
        \/ AnswersPOST_Fetch(p)
        \/ QuestionDELETE(p)
        \/ QuestionDELETE_Delete(p)
        \/ AnswerDELETE(p)
        \/ AnswerDELETE_Delete(p)
        \/ QuestionGET(p)

Spec == Init /\ [][Next]_vars

ConcNext ==
    \E p \in DOMAIN pc :
        \/ VotesPOST(p)
        \/ VotesPOST_Lookup(p)
        \/ VotesPOST_Write(p)
        \/ VotesPOST_Counts(p)
        \/ VotesDELETE(p)
        \/ VotesDELETE_Lookup(p)
        \/ VotesDELETE_Delete(p)
        \/ VotesDELETE_Counts(p)

ConcSpec == ConcInit /\ [][ConcNext]_vars

\* the handlers that create, edit and delete questions and answers, one
\* request at a time, from the empty store
EditNext ==
    \E p \in DOMAIN pc :
        \/ QuestionsPOST(p)
        \/ QuestionsPOST_Fetch(p)
        \/ AnswersPOST(p)
        \/ AnswersPOST_Insert(p)
        \/ AnswersPOST_Fetch(p)
        \/ QuestionPUT(p)
        \/ QuestionPUT_Tx(p)
        \/ QuestionPUT_Fetch(p)
        \/ AnswerPUT(p)
        \/ AnswerPUT_Update(p)
        \/ AnswerPUT_Fetch(p)
        \/ QuestionDELETE(p)
        \/ QuestionDELETE_Delete(p)
        \/ AnswerDELETE(p)
        \/ AnswerDELETE_Delete(p)

EditSpec == Init /\ [][EditNext]_vars

\* the seeded store with two request slots
TopicInit ==
    /\ questions = {}
    /\ answers = {}
    /\ topics = SeedTopics
    /\ questionTopics = {}
    /\ votes = {}
    /\ idCount = [questions |-> 0, answers |-> 0, votes |-> 0, topics |-> 0]
    /\ pc = [p \in Slots |-> "idle"]
    /\ args = [p \in Slots |-> NoArgs]
    /\ local = [p \in Slots |-> NoLocal]
    /\ resp = NoResp

\* two concurrent requests to POST /api/topics
TopicNext ==
    \E p \in DOMAIN pc :
        \/ TopicsPOST(p)
        \/ TopicsPOST_Insert(p)

TopicSpec == TopicInit /\ [][TopicNext]_vars

\* two concurrent requests to the handlers that answer, edit and delete
\* a question of the store
RaceNext ==
    \E p \in DOMAIN pc :
        \/ AnswersPOST(p)
        \/ AnswersPOST_Insert(p)
        \/ AnswersPOST_Fetch(p)
        \/ QuestionPUT(p)
        \/ QuestionPUT_Tx(p)
        \/ QuestionPUT_Fetch(p)
        \/ QuestionDELETE(p)
        \/ QuestionDELETE_Delete(p)

RaceSpec == ConcInit /\ [][RaceNext]_vars

\* two concurrent requests to POST /api/votes and DELETE /api/questions/[id]
VoteRaceNext ==
    \E p \in DOMAIN pc :
        \/ VotesPOST(p)
        \/ VotesPOST_Lookup(p)
        \/ VotesPOST_Write(p)
        \/ VotesPOST_Counts(p)
        \/ QuestionDELETE(p)
        \/ QuestionDELETE_Delete(p)

VoteRaceSpec == ConcInit /\ [][VoteRaceNext]_vars

\* the characters of the slugs a client may send: a letter in both cases,
\* two kinds of whitespace and the hyphen
SlugAlphabet == {"M", "l", " ", "\t", "-"}
MachineLearning == <<" ", " ", "M", "a", "c", "h", "i", "n", "e", " ", "L", "e", "a", "r", "n", "i", "n", "g", " ", " ">>
SlugInputs == UNION { [1..n -> SlugAlphabet] : n \in 0..MaxLen } \cup {MachineLearning}

\* a body whose slug is any of SlugInputs reaches createTopicSchema
SlugInit ==
    /\ questions = {}
    /\ answers = {}
    /\ topics = SeedTopics
    /\ questionTopics = {}
    /\ votes = {}
    /\ idCount = [questions |-> 0, answers |-> 0, votes |-> 0, topics |-> 0]
    /\ pc = [p \in Slots1 |-> "parseSlug.transform"]
    /\ \E raw \in SlugInputs : args = [p \in Slots1 |-> [op |-> "parseSlug", raw |-> raw, pass |-> 1]]
    /\ local = [p \in Slots1 |-> NoLocal]
    /\ resp = NoResp

\* createTopicSchema.slug on the body: min(1), then the transform
SlugParse(p) ==
    /\ pc[p] = "parseSlug.transform"
    /\ IF Len(args[p].raw) < 1
       THEN Finish(p, args[p], handleApiError(TooShort))
       ELSE /\ pc' = [pc EXCEPT ![p] = "parseSlug.again"]
            /\ args' = [args EXCEPT ![p] = [op |-> "parseSlug", raw |-> SlugOf(args[p].raw), pass |-> 2]]
            /\ resp' = [request |-> args[p], status |-> 200,
                        response |-> createSuccessResponse([slug |-> SlugOf(args[p].raw)], "")]
            /\ UNCHANGED local
    /\ UNCHANGED store

\* the transform of createTopicSchema.slug on a slug it produced
SlugParseAgain(p) ==
    /\ pc[p] = "parseSlug.again"
    /\ Finish(p, args[p], createSuccessResponse([slug |-> SlugOf(args[p].raw)], ""))
    /\ UNCHANGED store

\* slugs parsed once and again, then topics created through POST /api/topics
SlugNext ==
    \E p \in DOMAIN pc :
        \/ SlugParse(p)
        \/ SlugParseAgain(p)
        \/ TopicsPOST(p)
        \/ TopicsPOST_Insert(p)

SlugSpec == SlugInit /\ [][SlugNext]_vars

\* topic ids a listed question may carry, and the votes an item may hold
ListedTopicIds == { {}, {"topic-1", "topic-4"}, {TopicId(1)} }
ListedVotes == { {}, {<<"A", "upvote">>}, {<<"A", "downvote">>, <<"B", "downvote">>} }

\* the vote rows of a store in which item n of a table holds the votes held[n]
VoteRowsOf(held, itemType) ==
    UNION { { [id |-> 2 * n - (IF uv[1] = "A" THEN 1 ELSE 0), userId |-> uv[1],
               itemId |-> IF itemType = "question" THEN QuestionId(n) ELSE AnswerId(n),
               itemType |-> itemType, voteType |-> uv[2]] : uv \in held[n] } :
            n \in DOMAIN held }

\* stores the write handlers lead to: MaxListed questions by A, the seeded
\* topics and one created through POST /api/topics, and either topics and
\* votes on the questions, or MaxListed answers by B on the first question
\* with votes on the answers
ListInit ==
    /\ questions = { [id |-> QuestionId(n), authorId |-> "A", title |-> "Title one"] :
                        n \in 1..MaxListed }
    /\ topics = SeedTopics \cup { [id |-> TopicId(1), name |-> "science", slug |-> "science"] }
    /\ \E answered \in BOOLEAN, tagged \in [1..MaxListed -> ListedTopicIds],
          held \in [1..MaxListed -> ListedVotes] :
          /\ answered => \A n \in 2..MaxListed : tagged[n] = {}
          /\ questionTopics = UNION { { [questionId |-> QuestionId(n), topicId |-> t] : t \in tagged[n] } :
                                      n \in 1..MaxListed }
          /\ answers = IF answered
                       THEN { [id |-> AnswerId(n), questionId |-> QuestionId(1), authorId |-> "B",
                               content |-> "Content one"] : n \in 1..MaxListed }
                       ELSE {}
          /\ votes = VoteRowsOf(held, IF answered THEN "answer" ELSE "question")
          /\ idCount = [questions |-> MaxListed, answers |-> IF answered THEN MaxListed ELSE 0,
                        votes |-> 2 * MaxListed, topics |-> 1]
    /\ pc = [p \in Slots1 |-> "idle"]
    /\ args = [p \in Slots1 |-> NoArgs]
    /\ local = [p \in Slots1 |-> NoLocal]
    /\ resp = NoResp

\* a store of MaxListed questions by A, each with some of the topics, and no
\* answer or vote
PutInit ==
    /\ questions = { [id |-> QuestionId(n), authorId |-> "A", title |-> "Title one"] :
                        n \in 1..MaxListed }
    /\ topics = SeedTopics \cup { [id |-> TopicId(1), name |-> "science", slug |-> "science"] }
    /\ \E tagged \in [1..MaxListed -> ListedTopicIds] :
          questionTopics = UNION { { [questionId |-> QuestionId(n), topicId |-> t] : t \in tagged[n] } :
                                   n \in 1..MaxListed }
    /\ answers = {}
    /\ votes = {}
    /\ idCount = [questions |-> MaxListed, answers |-> 0, votes |-> 0, topics |-> 1]
    /\ pc = [p \in Slots1 |-> "idle"]
    /\ args = [p \in Slots1 |-> NoArgs]
    /\ local = [p \in Slots1 |-> NoLocal]
    /\ resp = NoResp

\* PUT /api/questions/[id], one request at a time
PutNext ==
    \E p \in DOMAIN pc :
        \/ QuestionPUT(p)
        \/ QuestionPUT_Tx(p)
        \/ QuestionPUT_Fetch(p)

PutSpec == PutInit /\ [][PutNext]_vars

\* the listing handlers, one request at a time
ListNext ==
    \E p \in DOMAIN pc :
        \/ QuestionsGET(p)
        \/ AnswersGET(p)
        \/ TopicGET(p)

ListSpec == ListInit /\ [][ListNext]_vars

\* ------------------------------------------------------------- properties
\* the number of rows of V on (itemId, itemType) with direction voteType, row by row
RECURSIVE RowCount(_, _, _, _)
RowCount(V, itemId, itemType, voteType) ==
    IF V = {} THEN 0
    ELSE LET v == CHOOSE x \in V : TRUE
         IN (IF v.itemId = itemId /\ v.itemType = itemType /\ v.voteType = voteType THEN 1 ELSE 0)
            + RowCount(V \ {v}, itemId, itemType, voteType)

\* the direction a voter holds on an item: "null" when there is no row
HeldDirection(V, userId, itemId, itemType) ==
    VoteTypeOrNull(Limit1(VotesOfUserItem(V, userId, itemId, itemType)))

\* the direction held after one castVote of direction d on held direction s
CastOutcome(s, d) == IF s = d THEN None ELSE d

\* slot p takes the step that leaves the await named label
Leaves(p, label) == pc[p] = label /\ pc'[p] # label

\* C1: for every (voter, item id, item type) the ledger holds at most one vote
\* row, whatever castVote and removeVote calls have run or are interleaved.
C1_VoteUniqueness ==
    \A u \in Users, i \in ItemIdInputs, t \in ItemTypes :
        Cardinality(VotesOfUserItem(votes, u, i, t)) <= 1

\* a concurrent insert for a triple that already has its row was just rejected
C1_Witness ==
    /\ resp.status = 500
    /\ resp.request.op = "castVote"
    /\ resp.response.error = UniqueViolation
    /\ VotesOfUserItem(votes, resp.request.user, resp.request.itemId, resp.request.itemType) # {}

\* C2: with requests served one at a time, a castVote of direction D by a voter
\* on a target creates a row with D when the voter holds none, removes the row
\* and returns null when the voter holds D (the second of two equal casts), and
\* leaves exactly one row, with D, returning D, when the voter holds the other
\* direction; the response carries that returned direction.
C2_ToggleCorrectness ==
    [][\A p \in DOMAIN pc :
        LET a == args[p]
            pre == VotesOfUserItem(votes, a.user, a.itemId, a.itemType)
            post == VotesOfUserItem(votes', a.user, a.itemId, a.itemType)
        IN /\ Leaves(p, "castVote.write") =>
                LET ret == VoteTypeOrNull(local'[p].vote)
                IN /\ pc'[p] = "castVote.counts"
                   /\ pre = {} =>
                        /\ Cardinality(post) = 1
                        /\ \A v \in post : v.voteType = a.voteType
                        /\ ret = a.voteType
                   /\ (\E v \in pre : v.voteType = a.voteType) =>
                        /\ post = {}
                        /\ ret = None
                   /\ (\E v \in pre : v.voteType # a.voteType) =>
                        /\ Cardinality(post) = 1
                        /\ \A v \in post : v.voteType = a.voteType
                        /\ ret = a.voteType
           /\ Leaves(p, "castVote.counts") =>
                /\ post = pre
                /\ resp'.status = 200
                /\ resp'.response.data.userVoteType = VoteTypeOrNull(local[p].vote)
                /\ resp'.response.data.userVoteType = HeldDirection(votes', a.user, a.itemId, a.itemType)
      ]_vars

\* a second cast of the same direction has just returned null and left no row
C2_Witness ==
    /\ resp.status = 200
    /\ resp.request.op = "castVote"
    /\ resp.response.data.userVoteType = None
    /\ VotesOfUserItem(votes, resp.request.user, resp.request.itemId, resp.request.itemType) = {}
    /\ idCount.votes >= 1

\* C3: two concurrent castVote calls of one voter on one target, both having
\* read the same ledger row, leave the triple in the state that running the two
\* calls one after the other, in one of the two orders, produces.
C3_Serializable ==
    \A p, q \in DOMAIN pc :
        ( /\ p # q
          /\ pc[p] = "castVote.counts"
          /\ pc[q] = "castVote.counts"
          /\ args[p].user = args[q].user
          /\ args[p].itemId = args[q].itemId
          /\ args[p].itemType = args[q].itemType
          /\ local[p].existingVote = local[q].existingVote )
        => LET s0 == VoteTypeOrNull(local[p].existingVote)
               dp == args[p].voteType
               dq == args[q].voteType
           IN /\ Cardinality(VotesOfUserItem(votes, args[p].user, args[p].itemId, args[p].itemType)) <= 1
              /\ HeldDirection(votes, args[p].user, args[p].itemId, args[p].itemType)
                    \in { CastOutcome(CastOutcome(s0, dp), dq), CastOutcome(CastOutcome(s0, dq), dp) }

\* C4: a castVote whose insert the store rejects for the uniqueness constraint
\* does not end in an error response: it goes on, or answers with success.
C4_RetryAsUpdate ==
    [][\A p \in DOMAIN pc :
        ( /\ Leaves(p, "castVote.write")
          /\ local[p].existingVote = <<>>
          /\ VotesOfUserItem(votes, args[p].user, args[p].itemId, args[p].itemType) # {} )
        => resp'.status \in {0, 200}
      ]_vars

\* C5: for every target, counts() returns as upvotes and downvotes the number
\* of ledger rows on that target with that direction, both non-negative, and
\* as total their difference.
C5_AggregationAccuracy ==
    \A i \in ItemIdInputs, t \in ItemTypes :
        LET c == getItemVoteCounts(votes, i, t)
        IN /\ c.upvotes = RowCount(votes, i, t, "upvote")
           /\ c.downvotes = RowCount(votes, i, t, "downvote")
           /\ c.upvotes >= 0
           /\ c.downvotes >= 0
           /\ c.total = RowCount(votes, i, t, "upvote") - RowCount(votes, i, t, "downvote")

\* a target holds one upvote and one downvote, of two voters
C5_Witness ==
    \E i \in ItemIdInputs, t \in ItemTypes :
        /\ getItemVoteCounts(votes, i, t).upvotes = 1
        /\ getItemVoteCounts(votes, i, t).downvotes = 1
        /\ getItemVoteCounts(votes, i, t).total = 0

\* C6: the vote a successful castVote reports is the direction the caller's
\* row holds once the call's mutation is done (null exactly when there is no
\* row), and the voteCounts it reports are the ledger's row counts at the read.
C6_ResponseFresh ==
    [][\A p \in DOMAIN pc :
        LET a == args[p]
        IN /\ (pc[p] = "castVote.write" /\ pc'[p] = "castVote.counts") =>
                VoteTypeOrNull(local'[p].vote) = HeldDirection(votes', a.user, a.itemId, a.itemType)
           /\ Leaves(p, "castVote.counts") =>
                /\ resp'.response.data.userVoteType = VoteTypeOrNull(local[p].vote)
                /\ resp'.response.data.voteCounts.upvotes = RowCount(votes', a.itemId, a.itemType, "upvote")
                /\ resp'.response.data.voteCounts.downvotes = RowCount(votes', a.itemId, a.itemType, "downvote")
      ]_vars

\* C7: the step that deletes a question leaves no answer of it, no topic
\* association of it, and no vote on it or on one of its former answers.
C7_CascadeIntegrity ==
    [][\A p \in DOMAIN pc :
        Leaves(p, "deleteQuestion.delete") =>
            LET q == args[p].questionId
                former == { a.id : a \in { x \in answers : x.questionId = q } }
            IN /\ \A a \in answers' : a.questionId # q
               /\ \A r \in questionTopics' : r.questionId # q
               /\ \A v \in votes' : ~(v.itemType = "question" /\ v.itemId = q)
               /\ \A v \in votes' : ~(v.itemType = "answer" /\ v.itemId \in former)
      ]_vars

\* C8: when DELETE of an answer has succeeded, no vote of item type answer
\* with the deleted answer's id is in the ledger.
C8_AnswerVotesDeleted ==
    (resp.status = 200 /\ resp.request.op = "deleteAnswer")
        => VotesOfItem(votes, resp.request.answerId, "answer") = {}

\* C9: every question of the listing carries the tallies counts() gives for it
\* over the ledger the listing was read from.
C9_ListingTallies ==
    (resp.status = 200 /\ resp.request.op = "listQuestions")
        => \A i \in DOMAIN resp.response.data :
              LET row == resp.response.data[i]
                  c == getItemVoteCounts(votes, row.id, "question")
              IN /\ row.upvotes = c.upvotes
                 /\ row.downvotes = c.downvotes
                 /\ row.voteCount = c.total

AllIdle == \A p \in DOMAIN pc : pc[p] = "idle"

\* the question_topics rows of one question
RelationsOf(QT, questionId) == { r \in QT : r.questionId = questionId }

C14_AllOrNothing ==
    [][\A p \in DOMAIN pc :
        /\ (pc[p] = "idle" /\ pc'[p] = "createQuestion.fetch") =>
              LET id == local'[p].questionId
                  ids == args'[p].topicIds
              IN /\ Cardinality({ q \in questions' : q.id = id }) = 1
                 /\ { q \in questions' : q.id # id } = questions
                 /\ RelationsOf(questionTopics', id) = TopicRelations(id, ids)
                 /\ Cardinality(RelationsOf(questionTopics', id)) = Len(ids)
                 /\ questionTopics' \ RelationsOf(questionTopics', id) = questionTopics
        /\ (pc[p] = "idle" /\ resp'.status # 0 /\ resp'.request.op = "createQuestion") =>
              /\ resp'.status # 200
              /\ questions' = questions
              /\ questionTopics' = questionTopics
        /\ Leaves(p, "updateQuestion.tx") =>
              LET a == args[p]
                  b == a.body
              IN IF pc'[p] = "updateQuestion.fetch"
                 THEN /\ \A q \in questions :
                          IF q.id = a.questionId
                          THEN [q EXCEPT !.title = IF b.title # Undefined THEN b.title ELSE @] \in questions'
                          ELSE q \in questions'
                      /\ Cardinality(questions') = Cardinality(questions)
                      /\ IF b.setTopics
                         THEN /\ RelationsOf(questionTopics', a.questionId) = TopicRelations(a.questionId, b.topicIds)
                              /\ Cardinality(RelationsOf(questionTopics', a.questionId)) = Len(b.topicIds)
                         ELSE questionTopics' = questionTopics
                 ELSE /\ resp'.status \notin {0, 200}
                      /\ questions' = questions
                      /\ questionTopics' = questionTopics
      ]_vars

\* an updateQuestion that sent a new title and a topicIds list the store
\* rejected was answered with an error, and the question keeps its first
\* title and its associations
C14_Witness ==
    /\ resp.status = 500
    /\ resp.request.op = "updateQuestion"
    /\ resp.request.body.title = "Title two"
    /\ resp.request.body.setTopics
    /\ resp.response.error \in {ForeignKeyViolation, UniqueViolation}
    /\ \E q \in questions :
          /\ q.id = resp.request.questionId
          /\ q.title = "Title one"
          /\ RelationsOf(questionTopics, q.id) # {}

\* C15: a POST /api/topics whose normalized name or slug is the name or slug
\* of a stored topic, at its existence check or at its insert, is answered 409
\* and adds no topic; in the store, names are pairwise distinct and slugs are
\* pairwise distinct.
C15_TopicConflict ==
    [][/\ \A p \in DOMAIN pc :
            ( /\ pc[p] \in {"idle", "createTopic.insert"}
              /\ pc'[p] = "idle"
              /\ resp'.status # 0
              /\ resp'.request.op = "createTopic"
              /\ \E t \in topics : t.name = resp'.request.name \/ t.slug = resp'.request.slug )
            => /\ resp'.status = 409
               /\ topics' = topics
       /\ \A t1, t2 \in topics' : t1 # t2 => (t1.name # t2.name /\ t1.slug # t2.slug)
      ]_vars

\* a listing request was just answered / answered with a page
ListingAnswered == resp.status # 0 /\ resp.request.op \in {"listQuestions", "listAnswers"}
ListingServed == resp.status = 200 /\ resp.request.op \in {"listQuestions", "listAnswers"}

\* ids of the questions associated with the topic whose slug is the filter
QuestionsOfSlug(slug) ==
    { q.id : q \in { x \in questions : \E r \in questionTopics, t \in topics :
                        r.questionId = x.id /\ r.topicId = t.id /\ t.slug = slug } }

\* ids of the items a listing request asks for
Matching(request) ==
    IF request.op = "listAnswers"
    THEN { a.id : a \in { x \in answers : x.questionId = request.questionId } }
    ELSE IF request.raw.topic = "" THEN { q.id : q \in questions }
    ELSE QuestionsOfSlug(request.raw.topic)

\* the least k with k * limit >= total
CeilDiv(total, limit) == CHOOSE k \in 0..total : k * limit >= total /\ (k = 0 \/ (k - 1) * limit < total)

\* upvotes minus downvotes of a listed item, counted on the ledger
NetScore(request, id) ==
    getItemVoteCounts(votes, id, IF request.op = "listAnswers" THEN "answer" ELSE "question").total

\* C16: a listing answered with a page reports as total the number of items
\* the request matches and as totalPages ceil(total / limit); the page holds
\* one matching item for each position (page-1)*limit .. page*limit-1 below
\* total, and is empty, with status 200, when page is above totalPages.
C16_PaginationMath ==
    ListingServed =>
        LET pg == resp.response.pagination
            data == resp.response.data
            page == ToNumber(resp.request.raw.page)
            limit == ToNumber(resp.request.raw.limit)
            n == Cardinality(Matching(resp.request))
        IN /\ pg.total = n
           /\ pg.totalPages = CeilDiv(n, limit)
           /\ Len(data) = Cardinality({ k \in ((page - 1) * limit)..(page * limit - 1) : k < n })
           /\ \A i \in DOMAIN data : data[i].id \in Matching(resp.request)
           /\ \A i, j \in DOMAIN data : i # j => data[i].id # data[j].id
           /\ page > pg.totalPages => data = <<>>

\* C17: a page sorted recent lists its items in descending creation time; a
\* page sorted most_voted lists them in descending upvotes minus downvotes,
\* and items of equal net score in descending creation time.
C17_SortOrder ==
    ListingServed =>
        LET data == resp.response.data
        IN \A i, j \in DOMAIN data :
             i < j =>
               LET ni == NetScore(resp.request, data[i].id)
                   nj == NetScore(resp.request, data[j].id)
                   ci == CreatedAt(data[i].id)
                   cj == CreatedAt(data[j].id)
               IN IF resp.request.raw.sort = "recent" THEN ci >= cj
                  ELSE ni > nj \/ (ni = nj /\ ci >= cj)

\* C18: listQuestions with a topic filter lists only questions associated
\* with the topic whose slug is the filter, and all of them when the page is
\* the first and as long as the table.
C18_TopicFilter ==
    (resp.status = 200 /\ resp.request.op = "listQuestions" /\ resp.request.raw.topic # "") =>
        LET data == resp.response.data
            listed == { data[i].id : i \in DOMAIN data }
        IN /\ listed \subseteq QuestionsOfSlug(resp.request.raw.topic)
           /\ ( /\ ToNumber(resp.request.raw.page) = 1
                /\ ToNumber(resp.request.raw.limit) >= Cardinality(questions) )
              => listed = QuestionsOfSlug(resp.request.raw.topic)

\* C19: a listing request whose page is below 1, or whose limit is below 1
\* or above 50, is answered 400.
C19_RejectOutOfRange ==
    ( /\ ListingAnswered
      /\ \/ resp.request.raw.page # None /\ ToNumber(resp.request.raw.page) < 1
         \/ resp.request.raw.limit # None /\ ToNumber(resp.request.raw.limit) < 1
         \/ resp.request.raw.limit # None /\ ToNumber(resp.request.raw.limit) > 50 )
    => resp.status = 400

\* C20: a listing request that leaves out page, limit or sort, its other
\* parameters in range and its question stored, is answered 200 with page 1
\* for a page left out and limit 20 for a limit left out.
C20_Defaults ==
    ( /\ ListingAnswered
      /\ resp.request.raw \in FaultyQueryInputs \cup
            { [page |-> r.page, limit |-> r.limit, sort |-> r.sort] : r \in FaultyQueryInputs }
      /\ None \in { resp.request.raw.page, resp.request.raw.limit, resp.request.raw.sort }
      /\ resp.request.op = "listAnswers" => ItemExists(resp.request.questionId, "question") )
    => /\ resp.status = 200
       /\ resp.request.raw.page = None => resp.response.pagination.page = 1
       /\ resp.request.raw.limit = None => resp.response.pagination.limit = 20

\* C21: slug normalization (trim, lower-case, every whitespace run to one
\* hyphen) is idempotent: normalizing a slug it produced returns that slug;
\* "  Machine Learning  " yields "machine-learning"; and the slug stored for
\* a created topic is a fixed point of the normalization.
C21_SlugIdempotent ==
    [][\A p \in DOMAIN pc :
        /\ (Leaves(p, "parseSlug.transform") /\ args[p].raw = MachineLearning)
              => resp'.response.data.slug = <<"m", "a", "c", "h", "i", "n", "e", "-", "l", "e", "a", "r", "n", "i", "n", "g">>
        /\ Leaves(p, "parseSlug.again")
              => /\ resp'.response.data.slug = args[p].raw
                 /\ resp'.response.data.slug = resp.response.data.slug
        /\ \A t \in topics' \ SeedTopics : SlugOf(Spell(t.slug)) = Spell(t.slug)]_vars

\* "  Machine Learning  " was normalized, and its slug normalized again
C21_Witness ==
    /\ resp.status = 200
    /\ resp.request.op = "parseSlug"
    /\ resp.request.pass = 2
    /\ resp.request.raw = <<"m", "a", "c", "h", "i", "n", "e", "-", "l", "e", "a", "r", "n", "i", "n", "g">>
    /\ resp.response.data.slug = resp.request.raw

\* C22: a 500 response never carries detail of the failure: whatever error
\* reached handleApiError unclassified, the error string of the response is
\* the one generic message.
C22_NoDetailLeak ==
    resp.status = 500 => resp.response.error = "Internal server error"

\* what GET /api/questions/[id] must show caller u as u's own vote on an item
OwnVoteShown(u, itemId, itemType, shown) ==
    LET own == { v \in votes : v.userId = u /\ v.itemId = itemId /\ v.itemType = itemType }
    IN /\ \A v \in own : shown = v.voteType
       /\ own = {} => shown = None

Bare(questionId) ==
    /\ \A a \in answers : a.questionId # questionId
    /\ \A v \in votes : ~(v.itemId = questionId /\ v.itemType = "question")
    /\ \A r \in questionTopics : r.questionId # questionId

TopicIdsOf(QT, questionId) == { r.topicId : r \in RelationsOf(QT, questionId) }

VoteLabels ==
    { "castVote.lookup", "castVote.write", "castVote.counts",
      "removeVote.lookup", "removeVote.delete", "removeVote.counts" }

\* C27: every step of castVote and removeVote by voter v on target (t, k)
\* leaves every vote row of another voter and every row of v on another
\* target as it was, leaves at most one row of (v, t, k), and changes no
\* question, answer, topic or association row.
C27_VoteFrame ==
    [][\A p \in DOMAIN pc :
        /\ (pc[p] \in VoteLabels /\ pc'[p] # pc[p]) =>
              LET a == args[p]
                  Mine(v) == v.userId = a.user /\ v.itemId = a.itemId /\ v.itemType = a.itemType
              IN /\ { v \in votes' : ~Mine(v) } = { v \in votes : ~Mine(v) }
                 /\ Cardinality({ v \in votes' : Mine(v) }) <= 1
                 /\ UNCHANGED <<questions, answers, topics, questionTopics>>
        /\ (pc[p] = "idle" /\ (pc'[p] \in VoteLabels
                                 \/ (resp'.status # 0 /\ resp'.request.op \in {"castVote", "removeVote"})))
              => UNCHANGED store]_vars

\* a castVote that changed the direction of the voter's row was answered
\* while another voter held a row on another target
C27_Witness ==
    /\ resp.status = 200
    /\ resp.request.op = "castVote"
    /\ idCount.votes = Cardinality(votes)
    /\ \E v, w \in votes :
          /\ v.userId = resp.request.user
          /\ v.itemId = resp.request.itemId
          /\ v.itemType = resp.request.itemType
          /\ v.id < w.id
          /\ w.userId # v.userId
          /\ w.itemType # v.itemType

\* C28: every vote row names a question or an answer that exists, whatever
\* DELETE ran after the target-existence check of the castVote that wrote it.
C28_NoDanglingVote ==
    \A v \in votes : ItemExists(v.itemId, v.itemType)

\* C29: a topic-filtered GET /api/questions reports a total that is the
\* number of questions its page query selects: the page holds one row for
\* each of its positions below total, so no page up to totalPages is empty
\* and the pages together hold total rows.
C29_TotalOfFilter ==
    (resp.status = 200 /\ resp.request.op = "listQuestions" /\ resp.request.raw.topic # "") =>
        LET pg == resp.response.pagination
            data == resp.response.data
            first == (pg.page - 1) * pg.limit
        IN /\ Len(data) = Cardinality({ k \in first..(first + pg.limit - 1) : k < pg.total })
           /\ pg.page <= pg.totalPages => data # <<>>

\* C30: the answerCount of every question listed by GET /api/questions and by
\* GET /api/topics/[slug] is the number of answers rows of that question,
\* whatever votes and topics the question has.
C30_AnswerCount ==
    /\ (resp.status = 200 /\ resp.request.op = "listQuestions") =>
          \A i \in DOMAIN resp.response.data :
              resp.response.data[i].answerCount =
                  Cardinality({ a \in answers : a.questionId = resp.response.data[i].id })
    /\ (resp.status = 200 /\ resp.request.op = "getTopic") =>
          \A i \in DOMAIN resp.response.data.questions :
              resp.response.data.questions[i].answerCount =
                  Cardinality({ a \in answers : a.questionId = resp.response.data.questions[i].id })

====
